---- MODULE Spec2Model ----
(***************************************************************************)
(* GameWorker / GameState of game/game_logic/game_manager.py.              *)
(*                                                                         *)
(* The worker is one asyncio consumer.  Its handlers (create_game,         *)
(* add_user, remove_user, submit_answer, start_game) are dispatched one    *)
(* message at a time, so at most one handler is in flight (cmd); every     *)
(* _run_game coroutine is a task of its own (tasks) that runs whenever a   *)
(* handler or another task is suspended in an await.  A step of the model  *)
(* is the code between two awaits.  An exception that nothing catches ends *)
(* the handler or the task where it is raised; what was written before it  *)
(* stays written.                                                          *)
(***************************************************************************)
EXTENDS Integers, Sequences, FiniteSets, TLC

VARIABLES
    active_games,      \* self.active_games: game code -> GameState
    current_players,   \* self.current_players: channel name -> game code
    current_question,  \* self.current_question: None or {'id', 'correct_answer'}
    tasks,             \* the _run_game coroutines created by start_game, with their locals
    cmd,               \* the handler in flight (suspended in an await), or Idle
    created,           \* number of GameState objects constructed so far
    asked              \* number of questions fetched from the question bank so far

vars == <<active_games, current_players, current_question, tasks, cmd, created, asked>>

-----------------------------------------------------------------------------
(* Bounds *)

NumHandles == 2     \* connected channels
MaxCode == 1        \* game codes are drawn from 0..MaxCode
MaxGames == 2       \* GameState objects constructed in one behaviour
MaxTasks == 2       \* _run_game tasks created in one behaviour
MaxAsked == 2       \* questions fetched from the bank in one behaviour
MaxAnswer == 1      \* correct answers are among the indices 0..MaxAnswer

(* Program constants *)

QuestionAmount == 3     \* _get_random_questions(3)
CorrectScore == 10      \* score = 10

Handles == 1..NumHandles
Answers == 0..MaxAnswer

-----------------------------------------------------------------------------
(* Python values *)

None == <<>>
Some(v) == <<v>>

\* A dict key: Python keeps 7 and "7" apart (different hash and equality).
IntKey(n) == <<"int", n>>
StrKey(n) == <<"str", n>>
str(n) == StrKey(n)

\* int(x): an int stays, a decimal text parses, anything else raises.
\* Raw event values: <<"int", n>>, <<"str", n>> (the text of n), <<"bad", 0>>.
int(raw) == IF raw[1] \in {"int", "str"} THEN Some(raw[2]) ELSE None

\* dict helpers
Put(d, k, v) == [x \in (DOMAIN d) \cup {k} |-> IF x = k THEN v ELSE d[x]]
Del(d, k) == [x \in (DOMAIN d) \ {k} |-> d[x]]
EmptyDict == [x \in {} |-> None]

\* list helper: the list without its element at position k
RemoveAt(s, k) == [j \in 1..(Len(s) - 1) |-> IF j < k THEN s[j] ELSE s[j + 1]]

\* Usernames are texts; a text is modelled as the sequence of its parts, so
\* that username + f" #{index}" is Append(username, index) and "" is <<>>.
EmptyText == <<>>
Suffixed(username, index) == Append(username, index)
UsernameInputs == {EmptyText, <<"A">>}

GameCodeInputs == {str(n) : n \in 0..MaxCode} \cup {None}
QuestionIdInputs == {<<"int", n>> : n \in -1..QuestionAmount} \cup {<<"str", 0>>, <<"bad", 0>>}
AnswerInputs == {<<"int", n>> : n \in 0..(MaxAnswer + 1)} \cup {<<"bad", 0>>}

-----------------------------------------------------------------------------
(* class GameState *)

\* oid is the identity of the Python object.
GameState(code, oid) == [code |-> code, oid |-> oid, users |-> <<>>, running |-> FALSE]

\* (variant: the running flag is not looked at)
is_game_running_never(g) == FALSE

is_game_running(g) == g.running

is_username_available(g, username) ==
    \A k \in 1..Len(g.users) : g.users[k].username # username

RECURSIVE first_free_index(_, _, _)
first_free_index(g, username, index) ==
    IF is_username_available(g, Suffixed(username, index))
    THEN index
    ELSE first_free_index(g, username, index + 1)

\* (variant: the requested username is stored as it is)
new_username_plain(g, username) == username

\* the username GameState.add_user stores and returns
new_username(g, username) ==
    IF is_username_available(g, username)
    THEN username
    ELSE Suffixed(username, first_free_index(g, username, 2))

GameState_add_user(g, channel_name, username) ==
    [g EXCEPT !.users = Append(@, [channel_name |-> channel_name,
                                   username |-> new_username(g, username),
                                   answers |-> <<>>])]

\* position of the first user with this channel name, 0 for None
get_user(g, channel_name) ==
    IF \E k \in 1..Len(g.users) : g.users[k].channel_name = channel_name
    THEN CHOOSE k \in 1..Len(g.users) :
            /\ g.users[k].channel_name = channel_name
            /\ \A j \in 1..(k - 1) : g.users[j].channel_name # channel_name
    ELSE 0

\* (variant: the user stays in the list)
GameState_remove_user_kept(g, channel_name) == g

\* list.remove(None) raises ValueError: callers test get_user first
GameState_remove_user(g, channel_name) ==
    [g EXCEPT !.users = RemoveAt(@, get_user(g, channel_name))]

\* (variant: the ledger is not looked at)
has_answered_never(user, question_id) == FALSE

\* lines 273-275: is there an entry for this question id
has_answered(user, question_id) ==
    \E k \in 1..Len(user.answers) : user.answers[k].question_id = question_id

\* set_answer, for a user that exists: the game afterwards
set_answer(g, channel_name, question_id, score) ==
    IF has_answered(g.users[get_user(g, channel_name)], question_id)
    THEN g
    ELSE [g EXCEPT !.users[get_user(g, channel_name)].answers =
                Append(@, [question_id |-> question_id, score |-> score])]

RECURSIVE SumScores(_)
SumScores(answers) ==
    IF answers = <<>> THEN 0 ELSE Head(answers).score + SumScores(Tail(answers))

count_user_score(user) == SumScores(user.answers)

get_all_scores(g) ==
    [k \in 1..Len(g.users) |-> [user |-> g.users[k].username,
                                score |-> count_user_score(g.users[k])]]

get_list_of_usernames(g) == [k \in 1..Len(g.users) |-> g.users[k].username]

get_list_of_users_channels(g) == [k \in 1..Len(g.users) |-> g.users[k].channel_name]

-----------------------------------------------------------------------------
(* class GameWorker: helpers *)

\* _get_new_game_code: the values the loop can return.  The lookup uses the
\* int that randint returned; the dict is keyed by the str the method returns.
get_new_game_code(games) ==
    {str(n) : n \in {m \in 0..MaxCode : IntKey(m) \notin DOMAIN games}}

\* _remove_player_from_game up to its await: the exception line 33 raises, or "".
remove_player_exception(games, players, channel_name) ==
    IF channel_name \notin DOMAIN players THEN "KeyError"
    ELSE IF players[channel_name] \notin DOMAIN games THEN "KeyError"
    ELSE IF get_user(games[players[channel_name]], channel_name) = 0 THEN "ValueError"
    ELSE ""

\* ... and active_games after line 33, when it raises nothing
remove_player_games(games, players, channel_name) ==
    [games EXCEPT ![players[channel_name]] = GameState_remove_user(@, channel_name)]

\* _remove_player_from_game after its await (line 35)
discard_exception(players, channel_name) ==
    IF channel_name \notin DOMAIN players THEN "KeyError" ELSE ""

discard_players(players, channel_name) == Del(players, channel_name)

\* _add_player_to_game up to its await
add_player_games(games, channel_name, username, game_code) ==
    [games EXCEPT ![game_code] = GameState_add_user(@, channel_name, username)]

add_player_players(players, channel_name, game_code) ==
    Put(players, channel_name, game_code)

-----------------------------------------------------------------------------
(* Handler bookkeeping *)

Idle == [op |-> "idle", pc |-> "", channel_name |-> 0, username |-> EmptyText, game_code |-> None]

InFlight(op, pc, channel_name, username, game_code) ==
    [op |-> op, pc |-> pc, channel_name |-> channel_name, username |-> username,
     game_code |-> game_code]

\* How a handler step ends: the unicast it sends (channel_layer.send), the
\* exception it raises, nothing at all, or the await it is suspended in.
Sent(channel_name, type, msg) == [to |-> channel_name, type |-> type, msg |-> msg]
Error(channel_name, msg) == Sent(channel_name, "error", msg)
Raised(channel_name, exception) == Sent(channel_name, "exception", exception)
Silent(channel_name) == Sent(channel_name, "none", "")
Awaiting(channel_name, what) == Sent(channel_name, "await", what)

\* The locals of a _run_game coroutine that are still live: game_code; in the
\* loop of line 89 the index i, the question q being asked (its correct
\* answer) and the questions not yet asked; in _remove_game the list players
\* and the position k in it.
NewTask(game_code) ==
    [game_code |-> game_code, pc |-> "announce", questions |-> <<>>, i |-> 0, q |-> 0,
     players |-> <<>>, k |-> 0, exception |-> ""]

Init ==
    /\ active_games = EmptyDict
    /\ current_players = EmptyDict
    /\ current_question = None
    /\ tasks = <<>>
    /\ cmd = Idle
    /\ created = 0
    /\ asked = 0

-----------------------------------------------------------------------------
(* create_game *)

\* create_game up to its first await or its return (lines 102-121)
create_game_reply(channel_name, username) ==
    IF username = EmptyText
    THEN Error(channel_name, "Some data is missing")
    ELSE IF channel_name \in DOMAIN current_players
    THEN IF remove_player_exception(active_games, current_players, channel_name) # ""
         THEN Raised(channel_name,
                     remove_player_exception(active_games, current_players, channel_name))
         ELSE Awaiting(channel_name, "group_discard")
    ELSE Sent(channel_name, "game_created", "")

\* lines 113-121: the new GameState replaces whatever the code maps to
create_game_finish(players, channel_name, username, game_code) ==
    /\ active_games' = add_player_games(
                          Put(active_games, game_code, GameState(game_code, created + 1)),
                          channel_name, username, game_code)
    /\ current_players' = add_player_players(players, channel_name, game_code)
    /\ created' = created + 1
    /\ cmd' = Idle

create_game(channel_name, username) ==
    /\ cmd = Idle
    /\ \E game_code \in get_new_game_code(active_games) :
        CASE create_game_reply(channel_name, username).type = "game_created" ->
                create_game_finish(current_players, channel_name, username, game_code)
          [] create_game_reply(channel_name, username).type = "await" ->
                /\ active_games' = remove_player_games(active_games, current_players, channel_name)
                /\ cmd' = InFlight("create_game", "discard", channel_name, username, game_code)
                /\ UNCHANGED <<current_players, created>>
          [] OTHER -> UNCHANGED <<active_games, current_players, cmd, created, asked>>
    /\ UNCHANGED <<current_question, tasks, asked>>

\* create_game resumed after the group_discard of line 34 (lines 35, 113-121)
create_game_resume_reply ==
    IF discard_exception(current_players, cmd.channel_name) # ""
    THEN Raised(cmd.channel_name, discard_exception(current_players, cmd.channel_name))
    ELSE Sent(cmd.channel_name, "game_created", "")

create_game_resume ==
    /\ cmd.op = "create_game" /\ cmd.pc = "discard"
    /\ IF create_game_resume_reply.type = "game_created"
       THEN create_game_finish(discard_players(current_players, cmd.channel_name),
                               cmd.channel_name, cmd.username, cmd.game_code)
       ELSE /\ cmd' = Idle
            /\ UNCHANGED <<active_games, current_players, created>>
    /\ UNCHANGED <<current_question, tasks, asked>>

-----------------------------------------------------------------------------
(* add_user *)

\* lines 138-153, with the dicts as they are at that point
add_user_join_reply(games, channel_name, game_code) ==
    IF game_code \notin DOMAIN games
    THEN Error(channel_name, "Game with code {game_code} does not exist")
    ELSE IF is_game_running(games[game_code])
    THEN Error(channel_name, "Game with code {game_code} is running already")
    ELSE Awaiting(channel_name, "group_add")

\* add_user up to its first await or its return (lines 124-145)
add_user_reply(channel_name, username, game_code) ==
    IF username = EmptyText \/ game_code = None
    THEN Error(channel_name, "Some data is missing")
    ELSE IF channel_name \in DOMAIN current_players
    THEN IF current_players[channel_name] = game_code
         THEN Error(channel_name, "You are in this game already")
         ELSE IF remove_player_exception(active_games, current_players, channel_name) # ""
         THEN Raised(channel_name,
                     remove_player_exception(active_games, current_players, channel_name))
         ELSE Awaiting(channel_name, "group_discard")
    ELSE add_user_join_reply(active_games, channel_name, game_code)

\* line 145 up to the await of line 40
add_user_join(players, channel_name, username, game_code) ==
    /\ active_games' = add_player_games(active_games, channel_name, username, game_code)
    /\ current_players' = add_player_players(players, channel_name, game_code)
    /\ cmd' = InFlight("add_user", "added", channel_name,
                       new_username(active_games[game_code], username), game_code)

add_user(channel_name, username, game_code) ==
    /\ cmd = Idle
    /\ CASE add_user_reply(channel_name, username, game_code) =
                Awaiting(channel_name, "group_add") ->
                add_user_join(current_players, channel_name, username, game_code)
         [] add_user_reply(channel_name, username, game_code) =
                Awaiting(channel_name, "group_discard") ->
                /\ active_games' = remove_player_games(active_games, current_players, channel_name)
                /\ cmd' = InFlight("add_user", "discard", channel_name, username, game_code)
                /\ UNCHANGED current_players
         [] OTHER -> UNCHANGED <<active_games, current_players, cmd>>
    /\ UNCHANGED <<current_question, tasks, created, asked>>

\* add_user resumed after the group_discard of line 34 (lines 35, 138-145)
add_user_resume_discard_reply ==
    IF discard_exception(current_players, cmd.channel_name) # ""
    THEN Raised(cmd.channel_name, discard_exception(current_players, cmd.channel_name))
    ELSE add_user_join_reply(active_games, cmd.channel_name, cmd.game_code)

add_user_resume_discard ==
    /\ cmd.op = "add_user" /\ cmd.pc = "discard"
    /\ CASE add_user_resume_discard_reply.type = "await" ->
                add_user_join(discard_players(current_players, cmd.channel_name),
                              cmd.channel_name, cmd.username, cmd.game_code)
         [] add_user_resume_discard_reply.type = "error" ->
                /\ current_players' = discard_players(current_players, cmd.channel_name)
                /\ cmd' = Idle
                /\ UNCHANGED active_games
         [] OTHER -> /\ cmd' = Idle
                     /\ UNCHANGED <<active_games, current_players>>
    /\ UNCHANGED <<current_question, tasks, created, asked>>

\* add_user resumed after group_add: the join_successful unicast, then
\* line 155 reads active_games[game_code] again
add_user_resume_added_reply ==
    IF cmd.game_code \notin DOMAIN active_games
    THEN Raised(cmd.channel_name, "KeyError")
    ELSE Sent(cmd.channel_name, "join_successful", "")

add_user_resume_added ==
    /\ cmd.op = "add_user" /\ cmd.pc = "added"
    /\ add_user_resume_added_reply.type \in {"join_successful", "exception"}
    /\ cmd' = Idle
    /\ UNCHANGED <<active_games, current_players, current_question, tasks, created, asked>>

-----------------------------------------------------------------------------
(* remove_user *)

\* remove_user up to its await or its return (lines 165-169, 33-34)
remove_user_reply(channel_name) ==
    IF channel_name \notin DOMAIN current_players
    THEN Error(channel_name, "You are not in a game")
    ELSE IF remove_player_exception(active_games, current_players, channel_name) # ""
    THEN Raised(channel_name,
                remove_player_exception(active_games, current_players, channel_name))
    ELSE Awaiting(channel_name, "group_discard")

remove_user(channel_name) ==
    /\ cmd = Idle
    /\ IF remove_user_reply(channel_name).type = "await"
       THEN /\ active_games' = remove_player_games(active_games, current_players, channel_name)
            /\ cmd' = InFlight("remove_user", "discard", channel_name, EmptyText, None)
       ELSE UNCHANGED <<active_games, cmd>>
    /\ UNCHANGED <<current_players, current_question, tasks, created, asked>>

\* remove_user resumed after the group_discard of line 34 (line 35)
remove_user_resume_reply ==
    IF discard_exception(current_players, cmd.channel_name) # ""
    THEN Raised(cmd.channel_name, discard_exception(current_players, cmd.channel_name))
    ELSE Silent(cmd.channel_name)

remove_user_resume ==
    /\ cmd.op = "remove_user" /\ cmd.pc = "discard"
    /\ current_players' = IF remove_user_resume_reply.type = "none"
                          THEN discard_players(current_players, cmd.channel_name)
                          ELSE current_players
    /\ cmd' = Idle
    /\ UNCHANGED <<active_games, current_question, tasks, created, asked>>

-----------------------------------------------------------------------------
(* submit_answer *)

\* score = 10 if answer == current_question['correct_answer'] else 0
answer_score(answer, question) == IF answer = question.correct_answer THEN CorrectScore ELSE 0

\* (variant: only the question just before the current one has "ended")
question_id_error_previous(question_id, current_id) ==
    IF current_id - 1 = question_id /\ question_id >= 0
    THEN "Question already ended"
    ELSE "Wrong question id"

\* lines 185-190: the error for a question id that is not the current one
question_id_error(question_id, current_id) ==
    IF current_id > question_id /\ question_id >= 0
    THEN "Question already ended"
    ELSE "Wrong question id"

\* The unicast or exception submit_answer ends with (lines 172-210).
submit_answer_reply(channel_name, question_id, answer) ==
    IF channel_name \notin DOMAIN current_players
    THEN Error(channel_name, "You are not in a game")
    ELSE IF int(question_id) = None
    THEN Error(channel_name, "Wrong question id")
    ELSE IF current_question = None
    THEN Raised(channel_name, "TypeError")
    ELSE IF int(question_id)[1] # current_question[1].id
    THEN Error(channel_name, question_id_error(int(question_id)[1], current_question[1].id))
    ELSE IF int(answer) = None
    THEN Error(channel_name, "Wrong answer format")
    ELSE IF current_players[channel_name] \notin DOMAIN active_games
    THEN Raised(channel_name, "KeyError")
    ELSE IF get_user(active_games[current_players[channel_name]], channel_name) = 0
    THEN Raised(channel_name, "TypeError")
    ELSE IF has_answered(active_games[current_players[channel_name]].users[
                get_user(active_games[current_players[channel_name]], channel_name)],
                int(question_id)[1])
    THEN Silent(channel_name)
    ELSE Sent(channel_name, "question_end",
              IF answer_score(int(answer)[1], current_question[1]) > 0 THEN "True" ELSE "False")

\* active_games after submit_answer: set_answer is reached at line 202 only
submit_answer_games(channel_name, question_id, answer) ==
    IF submit_answer_reply(channel_name, question_id, answer).type \in {"question_end", "none"}
    THEN [active_games EXCEPT ![current_players[channel_name]] =
            set_answer(@, channel_name, int(question_id)[1],
                       answer_score(int(answer)[1], current_question[1]))]
    ELSE active_games

submit_answer(channel_name, question_id, answer) ==
    /\ cmd = Idle
    /\ active_games' = submit_answer_games(channel_name, question_id, answer)
    /\ UNCHANGED <<current_players, current_question, tasks, cmd, created, asked>>

-----------------------------------------------------------------------------
(* start_game *)

\* (variant: the running flag is not tested)
GameState_start_game_always(g) == TRUE

\* GameState.start_game: the value it returns
GameState_start_game(g) == ~g.running

\* start_game (lines 213-222); nothing is sent when the game starts
start_game_reply(channel_name) ==
    IF channel_name \notin DOMAIN current_players
    THEN Error(channel_name, "You are not in a game")
    ELSE IF current_players[channel_name] \notin DOMAIN active_games
    THEN Raised(channel_name, "KeyError")
    ELSE IF GameState_start_game(active_games[current_players[channel_name]])
    THEN Silent(channel_name)
    ELSE Error(channel_name, "Game is running already")

start_game(channel_name) ==
    /\ cmd = Idle
    /\ IF start_game_reply(channel_name).type = "none"
       THEN /\ active_games' = [active_games EXCEPT ![current_players[channel_name]].running = TRUE]
            /\ tasks' = Append(tasks, NewTask(current_players[channel_name]))
       ELSE UNCHANGED <<active_games, tasks>>
    /\ UNCHANGED <<current_players, current_question, cmd, created, asked>>

-----------------------------------------------------------------------------
(* _run_game, one step per stretch of code between awaits *)

Leave(t, pc, exception) ==
    [tasks EXCEPT ![t] = [NewTask(@.game_code) EXCEPT !.pc = pc, !.exception = exception]]

Die(t, exception) == Leave(t, "dead", exception)

\* line 80: the game_started broadcast
run_game_announce(t) ==
    /\ tasks[t].pc = "announce"
    /\ tasks' = [tasks EXCEPT ![t].pc = "fetch"]
    /\ UNCHANGED <<active_games, current_players, current_question, cmd, created, asked>>

\* lines 92-98 up to the await of the game_ended broadcast
send_scores(t) ==
    IF tasks[t].game_code \notin DOMAIN active_games
    THEN Die(t, "KeyError")
    ELSE Leave(t, "ended", "")

\* lines 87-90 and 59-72: the bank returns amount <= QuestionAmount questions
\* (each with its correct answer); question 0 is asked, or, with no question
\* at all, the scores are sent
run_game_fetch(t, amount) ==
    /\ tasks[t].pc = "fetch"
    /\ asked' = asked + amount
    /\ \E questions \in [1..amount -> Answers] :
        IF questions = <<>>
        THEN /\ tasks' = send_scores(t)
             /\ UNCHANGED current_question
        ELSE /\ tasks' = [tasks EXCEPT ![t].pc = "ask", ![t].i = 0,
                                       ![t].q = Head(questions),
                                       ![t].questions = Tail(questions)]
             /\ current_question' = Some([id |-> 0, correct_answer |-> Head(questions)])
    /\ UNCHANGED <<active_games, current_players, cmd, created>>

\* (variant: the loop stops one question early)
run_game_next_short(t) ==
    /\ tasks[t].pc = "ask"
    /\ IF Len(tasks[t].questions) > 1
       THEN /\ tasks' = [tasks EXCEPT ![t].i = @ + 1, ![t].q = Head(tasks[t].questions),
                                      ![t].questions = Tail(@)]
            /\ current_question' = Some([id |-> tasks[t].i + 1,
                                         correct_answer |-> Head(tasks[t].questions)])
       ELSE /\ tasks' = send_scores(t)
            /\ UNCHANGED current_question
    /\ UNCHANGED <<active_games, current_players, cmd, created, asked>>

\* the sleep of question i is over: ask question i + 1 (lines 89-90, 59), or
\* send the scores (lines 92-98)
run_game_next(t) ==
    /\ tasks[t].pc = "ask"
    /\ IF tasks[t].questions # <<>>
       THEN /\ tasks' = [tasks EXCEPT ![t].i = @ + 1, ![t].q = Head(tasks[t].questions),
                                      ![t].questions = Tail(@)]
            /\ current_question' = Some([id |-> tasks[t].i + 1,
                                         correct_answer |-> Head(tasks[t].questions)])
       ELSE /\ tasks' = send_scores(t)
            /\ UNCHANGED current_question
    /\ UNCHANGED <<active_games, current_players, cmd, created, asked>>

\* _remove_game, the loop of lines 45-46 from player k on, then line 47:
\* the next values of <<active_games, tasks>> given current_players as it is now
remove_game_from(t, players, list, k) ==
    IF k > Len(list)
    THEN IF tasks[t].game_code \notin DOMAIN active_games
         THEN <<active_games, Die(t, "KeyError")>>
         ELSE <<Del(active_games, tasks[t].game_code), Leave(t, "done", "")>>
    ELSE IF remove_player_exception(active_games, players, list[k]) # ""
    THEN <<active_games, Die(t, remove_player_exception(active_games, players, list[k]))>>
    ELSE <<remove_player_games(active_games, players, list[k]),
           [tasks EXCEPT ![t].pc = "discard", ![t].players = list, ![t].k = k]>>

\* line 99 after the game_ended broadcast: _remove_game up to its first await
run_game_remove_game(t) ==
    /\ tasks[t].pc = "ended"
    /\ IF tasks[t].game_code \notin DOMAIN active_games
       THEN /\ tasks' = Die(t, "KeyError")
            /\ UNCHANGED active_games
       ELSE /\ active_games' = remove_game_from(t, current_players,
                    get_list_of_users_channels(active_games[tasks[t].game_code]), 1)[1]
            /\ tasks' = remove_game_from(t, current_players,
                    get_list_of_users_channels(active_games[tasks[t].game_code]), 1)[2]
    /\ UNCHANGED <<current_players, current_question, cmd, created, asked>>

\* _remove_game resumed after the group_discard for player k: line 35, then
\* the next player or line 47
run_game_discard(t) ==
    /\ tasks[t].pc = "discard"
    /\ IF discard_exception(current_players, tasks[t].players[tasks[t].k]) # ""
       THEN /\ tasks' = Die(t, discard_exception(current_players, tasks[t].players[tasks[t].k]))
            /\ UNCHANGED <<active_games, current_players>>
       ELSE /\ current_players' = discard_players(current_players, tasks[t].players[tasks[t].k])
            /\ active_games' = remove_game_from(t, current_players',
                                    tasks[t].players, tasks[t].k + 1)[1]
            /\ tasks' = remove_game_from(t, current_players',
                                    tasks[t].players, tasks[t].k + 1)[2]
    /\ UNCHANGED <<current_question, cmd, created, asked>>

-----------------------------------------------------------------------------

(* The steps of the worker.  A handler that ends in an error unicast, in an  *)
(* exception before its first write, or in silence leaves every variable     *)
(* unchanged: [][Next]_vars admits that step as it is, so the steps below    *)
(* are the handler runs that write something.  The bounds of the model are   *)
(* guards of these steps.                                                    *)

CreateGame ==
    \E h \in Handles, u \in UsernameInputs :
        /\ created < MaxGames
        /\ create_game_reply(h, u).type \in {"game_created", "await"}
        /\ create_game(h, u)
CreateGameResume == create_game_resume
AddUser ==
    \E h \in Handles, u \in UsernameInputs, c \in GameCodeInputs :
        /\ add_user_reply(h, u, c).type = "await"
        /\ add_user(h, u, c)
AddUserResumeDiscard == add_user_resume_discard
AddUserResumeAdded == add_user_resume_added
RemoveUser ==
    \E h \in Handles :
        /\ remove_user_reply(h).type = "await"
        /\ remove_user(h)
RemoveUserResume == remove_user_resume
SubmitAnswer ==
    \E h \in Handles, q \in QuestionIdInputs, a \in AnswerInputs :
        /\ submit_answer_reply(h, q, a).type = "question_end"
        /\ submit_answer(h, q, a)
StartGame ==
    \E h \in Handles :
        /\ Len(tasks) < MaxTasks
        /\ start_game_reply(h).type = "none"
        /\ start_game(h)
RunGameAnnounce == \E t \in 1..Len(tasks) : run_game_announce(t)
RunGameFetch ==
    \E t \in 1..Len(tasks), amount \in 0..QuestionAmount :
        /\ asked + amount <= MaxAsked
        /\ run_game_fetch(t, amount)
RunGameNext == \E t \in 1..Len(tasks) : run_game_next(t)
RunGameRemoveGame == \E t \in 1..Len(tasks) : run_game_remove_game(t)
RunGameDiscard == \E t \in 1..Len(tasks) : run_game_discard(t)

Next ==
    \/ CreateGame
    \/ CreateGameResume
    \/ AddUser
    \/ AddUserResumeDiscard
    \/ AddUserResumeAdded
    \/ RemoveUser
    \/ RemoveUserResume
    \/ SubmitAnswer
    \/ StartGame
    \/ RunGameAnnounce
    \/ RunGameFetch
    \/ RunGameNext
    \/ RunGameRemoveGame
    \/ RunGameDiscard

Spec == Init /\ [][Next]_vars

(* One round at a time: a game is started only when no _run_game task has   *)
(* been created before, and the bank may return a full set of questions.    *)
StartGameAlone ==
    \E h \in Handles :
        /\ tasks = <<>>
        /\ start_game_reply(h).type = "none"
        /\ start_game(h)
RunGameFetchAll ==
    \E t \in 1..Len(tasks), amount \in 0..QuestionAmount : run_game_fetch(t, amount)

NextAlone ==
    \/ CreateGame
    \/ CreateGameResume
    \/ AddUser
    \/ AddUserResumeDiscard
    \/ AddUserResumeAdded
    \/ RemoveUser
    \/ RemoveUserResume
    \/ SubmitAnswer
    \/ StartGameAlone
    \/ RunGameAnnounce
    \/ RunGameFetchAll
    \/ RunGameNext
    \/ RunGameRemoveGame
    \/ RunGameDiscard

SpecAlone == Init /\ [][NextAlone]_vars

(* The lobby: rooms are created, joined and left by one handle more, with   *)
(* usernames that collide (the text "A", and the text "A #2" typed as it    *)
(* is); no game is started.                                                 *)
LobbyHandles == 1..(NumHandles + 1)
LobbyUsernames == {<<"A">>, Suffixed(<<"A">>, 2)}

LobbyCreateGame ==
    \E h \in LobbyHandles, u \in LobbyUsernames :
        /\ created < MaxGames
        /\ create_game_reply(h, u).type \in {"game_created", "await"}
        /\ create_game(h, u)
LobbyAddUser ==
    \E h \in LobbyHandles, u \in LobbyUsernames, c \in GameCodeInputs :
        /\ add_user_reply(h, u, c).type = "await"
        /\ add_user(h, u, c)
LobbyRemoveUser ==
    \E h \in LobbyHandles :
        /\ remove_user_reply(h).type = "await"
        /\ remove_user(h)

NextLobby ==
    \/ LobbyCreateGame
    \/ CreateGameResume
    \/ LobbyAddUser
    \/ AddUserResumeDiscard
    \/ AddUserResumeAdded
    \/ LobbyRemoveUser
    \/ RemoveUserResume

SpecLobby == Init /\ [][NextLobby]_vars

-----------------------------------------------------------------------------
(* Vocabulary of the properties *)

Codes == DOMAIN active_games

\* the channel names in the user list of the game a code maps to
Members(c) == {active_games[c].users[k].channel_name : k \in 1..Len(active_games[c].users)}

\* the coroutines that have been started and have neither returned nor raised
Live(t) == tasks[t].pc \notin {"done", "dead"}
LiveTasks(c) == {t \in 1..Len(tasks) : tasks[t].game_code = c /\ Live(t)}

\* the coroutines that are inside the sleep of a question
Asking(c) == {t \in LiveTasks(c) : tasks[t].pc = "ask"}

-----------------------------------------------------------------------------
(* C1: a code held by an active room is never handed out again: no step     *)
(* replaces the GameState an active code maps to by another object.         *)
C1_CodeNeverReallocated ==
    [][\A c \in Codes : c \in DOMAIN active_games' =>
            active_games'[c].oid = active_games[c].oid]_vars

(* C2: for each room code at most one _run_game task has been started and   *)
(* has not yet finished.                                                    *)
C2_OneSchedulerPerCode ==
    \A c \in {tasks[t].game_code : t \in 1..Len(tasks)} : Cardinality(LiveTasks(c)) <= 1

(* C3: a member of room c that answers the question room c is asking (the   *)
(* one scheduler of c is in the sleep of question i, correct answer q) is   *)
(* accepted and scored against that question -- result "True" exactly when  *)
(* the answer is q -- or silently ignored as a repeat, whatever the other   *)
(* rooms are asking.                                                        *)
C3_OwnRoomQuestion ==
    \A h \in DOMAIN current_players : \A a \in 0..(MaxAnswer + 1) :
        LET c == current_players[h] IN
        (/\ cmd = Idle
         /\ c \in Codes
         /\ h \in Members(c)
         /\ Cardinality(LiveTasks(c)) = 1
         /\ Asking(c) # {})
        => LET t == CHOOSE t \in Asking(c) : TRUE
               r == submit_answer_reply(h, <<"int", tasks[t].i>>, <<"int", a>>)
           IN \/ r = Silent(h)
              \/ r = Sent(h, "question_end", IF a = tasks[t].q THEN "True" ELSE "False")

(* C4: no handler ends in an unhandled exception: whatever command arrives   *)
(* in a reachable state, and whenever a suspended handler resumes, the       *)
(* outcome is a unicast, an await or silence.                                *)
C4_NoUnhandledException ==
    /\ cmd = Idle =>
        \A h \in Handles :
            /\ \A u \in UsernameInputs : create_game_reply(h, u).type # "exception"
            /\ \A u \in UsernameInputs, c \in GameCodeInputs :
                    add_user_reply(h, u, c).type # "exception"
            /\ remove_user_reply(h).type # "exception"
            /\ start_game_reply(h).type # "exception"
            /\ \A q \in QuestionIdInputs, a \in AnswerInputs :
                    submit_answer_reply(h, q, a).type # "exception"
    /\ (cmd.op = "create_game" /\ cmd.pc = "discard") => create_game_resume_reply.type # "exception"
    /\ (cmd.op = "add_user" /\ cmd.pc = "discard") => add_user_resume_discard_reply.type # "exception"
    /\ (cmd.op = "add_user" /\ cmd.pc = "added") => add_user_resume_added_reply.type # "exception"
    /\ (cmd.op = "remove_user" /\ cmd.pc = "discard") => remove_user_resume_reply.type # "exception"

(* C5: every started round reaches the end of _run_game (scores sent, room  *)
(* dissolved): no _run_game task is ended by an exception on the way.       *)
(* Stated for the behaviours in which a single room was ever created, so    *)
(* that no code is shared by two rooms.                                     *)
C5_RoundReachesDisposed ==
    created = 1 => \A t \in 1..Len(tasks) : tasks[t].pc # "dead"

-----------------------------------------------------------------------------
UsersOf(games, c) == games[c].users
MembersOf(games, c) == {UsersOf(games, c)[k].channel_name : k \in 1..Len(UsersOf(games, c))}
AnswersOf(games, c, h) == UsersOf(games, c)[get_user(games[c], h)].answers
IsPrefix(s, t) == Len(s) <= Len(t) /\ SubSeq(t, 1, Len(s)) = s
SameRoom(c) == c \in DOMAIN active_games' /\ active_games'[c].oid = active_games[c].oid

(* C6: a channel name is in the user list of at most one active game, and   *)
(* at most once in that list.                                               *)
C6_AtMostOneRoom ==
    /\ \A h \in Handles : Cardinality({c \in Codes : h \in Members(c)}) <= 1
    /\ \A c \in Codes : Cardinality(Members(c)) = Len(active_games[c].users)

\* a handle that was the member of one room has moved to another one
C6_Moved ==
    \E h \in Handles : \E c1, c2 \in Codes :
        /\ c1 # c2
        /\ cmd = Idle
        /\ active_games[c1].oid < active_games[c2].oid
        /\ Members(c2) = {h}
        /\ Members(c1) = {}

C8_FirstAnswerOnly ==
    /\ [](\A c \in Codes : \A k \in 1..Len(active_games[c].users) :
            \A i, j \in 1..Len(active_games[c].users[k].answers) :
                i # j => active_games[c].users[k].answers[i].question_id
                            # active_games[c].users[k].answers[j].question_id)
    /\ [](\A h \in DOMAIN current_players :
            \A q \in QuestionIdInputs, a \in AnswerInputs :
                (/\ int(q) # None /\ int(a) # None
                 /\ current_question # None
                 /\ int(q)[1] = current_question[1].id
                 /\ current_players[h] \in Codes
                 /\ h \in Members(current_players[h])
                 /\ \E k \in 1..Len(AnswersOf(active_games, current_players[h], h)) :
                        AnswersOf(active_games, current_players[h], h)[k].question_id
                            = int(q)[1])
                => /\ submit_answer_reply(h, q, a) = Silent(h)
                   /\ submit_answer_games(h, q, a) = active_games)
    /\ [][\A c \in Codes : SameRoom(c) =>
            \A h \in MembersOf(active_games, c) \cap MembersOf(active_games', c) :
                IsPrefix(AnswersOf(active_games, c, h), AnswersOf(active_games', c, h))]_vars

\* a member has an answer for the current question in its ledger, with either score
C8_Answered ==
    \E h \in DOMAIN current_players :
        /\ cmd = Idle
        /\ current_question # None
        /\ current_players[h] \in Codes
        /\ h \in Members(current_players[h])
        /\ \E k \in 1..Len(AnswersOf(active_games, current_players[h], h)) :
              /\ AnswersOf(active_games, current_players[h], h)[k].question_id
                    = current_question[1].id
              /\ AnswersOf(active_games, current_players[h], h)[k].score = 0
        /\ Len(AnswersOf(active_games, current_players[h], h)) > 1

(* C9 as stated: for a member submitting the integer id q while the current *)
(* question id is c, q = c - 1 (an earlier question) yields "Question       *)
(* already ended", and q <= c - 2 or q > c yields "Wrong question id".      *)
C9_OnlyPreviousEnded ==
    \A h \in DOMAIN current_players : \A q \in -1..QuestionAmount : \A a \in AnswerInputs :
        current_question # None =>
            LET c == current_question[1].id
                r == submit_answer_reply(h, <<"int", q>>, a)
            IN /\ (q = c - 1 /\ q >= 0) => r = Error(h, "Question already ended")
               /\ (q <= c - 2 \/ q > c) => r = Error(h, "Wrong question id")

(* C9 amended: for a member submitting the integer id q (an int or its      *)
(* decimal text) while the worker's current question id is c, 0 <= q < c    *)
(* yields "Question already ended" and q < 0 or q > c yields "Wrong         *)
(* question id"; in neither case is an answer recorded.                     *)
C9_EveryEarlierEnded ==
    \A h \in DOMAIN current_players : \A q \in QuestionIdInputs : \A a \in AnswerInputs :
        (current_question # None /\ int(q) # None) =>
            LET c == current_question[1].id
                n == int(q)[1]
                r == submit_answer_reply(h, q, a)
            IN /\ (0 <= n /\ n < c) => r = Error(h, "Question already ended")
               /\ (n < 0 \/ n > c) => r = Error(h, "Wrong question id")
               /\ n # c => submit_answer_games(h, q, a) = active_games

\* the third question is the current one and a member can submit for the first
C9_ThirdQuestion ==
    \E h \in DOMAIN current_players :
        /\ cmd = Idle
        /\ current_question # None
        /\ current_question[1].id = 2
        /\ current_players[h] \in Codes
        /\ h \in Members(current_players[h])
        /\ Asking(current_players[h]) # {}

(* C10: once its last member has left a room that is not running, joining   *)
(* with the room's code fails with "does not exist".  A GameState gets its  *)
(* first user in the step that creates it, so an empty user list means that *)
(* every member has left.                                                   *)
C10_EmptiedRoomNotJoinable ==
    \A c \in Codes :
        (cmd = Idle /\ active_games[c].users = <<>> /\ ~active_games[c].running)
        => \A h \in Handles :
              add_user_join_reply(active_games, h, c)
                = Error(h, "Game with code {game_code} does not exist")

-----------------------------------------------------------------------------
(* C11: when the wait of a question is over and the room of the scheduler   *)
(* has no member left (every player left during the wait), the scheduler    *)
(* asks no further question: the step that ends the wait does not put the   *)
(* task into the wait of another question.  Stated for the behaviours in    *)
(* which a single room was ever created, so that the code names that room.  *)
C11_AbortWhenEmptied ==
    [][\A t \in 1..Len(tasks) :
          (/\ created = 1
           /\ cmd = Idle
           /\ tasks[t].pc = "ask"
           /\ tasks[t].game_code \in Codes
           /\ active_games[tasks[t].game_code].users = <<>>
           /\ tasks'[t] # tasks[t])
          => tasks'[t].pc # "ask"]_vars

-----------------------------------------------------------------------------
\* the channel names of a user list, in list order
ChannelsOf(users) == [k \in 1..Len(users) |-> users[k].channel_name]
\* the elements of a list that are in S, in list order
RECURSIVE Restrict(_, _)
Restrict(list, S) ==
    IF list = <<>> THEN <<>>
    ELSE IF Head(list) \in S THEN <<Head(list)>> \o Restrict(Tail(list), S)
    ELSE Restrict(Tail(list), S)

-----------------------------------------------------------------------------
UsedIn(g, username) == \E k \in 1..Len(g.users) : g.users[k].username = username

(* C13: in every room the usernames are pairwise distinct; for a room g and *)
(* a requested username n, add_user stores n when no user of g has it, and  *)
(* otherwise n #k for the smallest k >= 2 such that n #k is unused in g;    *)
(* a step that adds a user appends it to the list, under a name no user of  *)
(* the room had, and that name is the one the join is answered with.        *)
C13_UsernameSuffixing ==
    /\ [](\A c \in Codes : \A i, j \in 1..Len(active_games[c].users) :
            i # j => active_games[c].users[i].username # active_games[c].users[j].username)
    /\ [](\A c \in Codes : \A n \in LobbyUsernames :
            LET g == active_games[c]
                r == new_username(g, n)
            IN /\ ~UsedIn(g, n) => r = n
               /\ UsedIn(g, n) =>
                    \E k \in 2..(Len(g.users) + 2) :
                        /\ r = Suffixed(n, k)
                        /\ ~UsedIn(g, r)
                        /\ \A j \in 2..(k - 1) : UsedIn(g, Suffixed(n, j)))
    /\ [][\A c \in Codes :
            (SameRoom(c) /\ Len(UsersOf(active_games', c)) > Len(UsersOf(active_games, c)))
            => LET new == UsersOf(active_games', c)[Len(UsersOf(active_games', c))]
               IN /\ UsersOf(active_games', c) = Append(UsersOf(active_games, c), new)
                  /\ ~UsedIn(active_games[c], new.username)
                  /\ new.answers = <<>>
                  /\ cmd'.op = "add_user" /\ cmd'.username = new.username]_vars

\* the second A is A #2 and the third is A #3
C13_ThreeOfAName ==
    \E c \in Codes :
        /\ cmd = Idle
        /\ get_list_of_usernames(active_games[c])
              = <<<<"A">>, Suffixed(<<"A">>, 2), Suffixed(<<"A">>, 3)>>

-----------------------------------------------------------------------------
(* C14: the steps of a _run_game task come in one order.  The game_started  *)
(* broadcast (announce -> fetch) is first; then question 0 is asked; the    *)
(* end of the wait of question i is followed by question i + 1, the next    *)
(* one in retrieval order, while one is left, and by the game_ended         *)
(* broadcast only when none is left; the room is dissolved after the        *)
(* game_ended broadcast only, and a task that is over takes no step.  The   *)
(* current question is always the one the task asked last, its id never     *)
(* decreases, and a code leaves active_games only at the end of the         *)
(* _remove_game of its task.                                                *)
C14_BroadcastOrder ==
    [][/\ \A t \in 1..Len(tasks) :
             tasks'[t] # tasks[t] =>
                LET a == tasks[t]
                    b == tasks'[t]
                IN /\ b.game_code = a.game_code
                   /\ CASE a.pc = "announce" -> b.pc = "fetch"
                        [] a.pc = "fetch" ->
                              \/ /\ b.pc = "ask"
                                 /\ b.i = 0
                                 /\ current_question'
                                       = Some([id |-> 0, correct_answer |-> b.q])
                              \/ /\ b.pc = "ended"
                                 /\ UNCHANGED current_question
                        [] a.pc = "ask" ->
                              IF a.questions # <<>>
                              THEN /\ b.pc = "ask"
                                   /\ b.i = a.i + 1
                                   /\ b.q = Head(a.questions)
                                   /\ b.questions = Tail(a.questions)
                                   /\ current_question'
                                         = Some([id |-> b.i, correct_answer |-> b.q])
                              ELSE /\ b.pc = "ended"
                                   /\ UNCHANGED current_question
                        [] a.pc \in {"ended", "discard"} ->
                              b.pc \in {"discard", "done", "dead"}
                        [] OTHER -> FALSE
       /\ Len(tasks') > Len(tasks) =>
             /\ Len(tasks') = Len(tasks) + 1
             /\ tasks'[Len(tasks')].pc = "announce"
       /\ current_question # None =>
             /\ current_question' # None
             /\ current_question'[1].id >= current_question[1].id
       /\ current_question' # current_question =>
             \E t \in 1..Len(tasks) : tasks[t].pc \in {"fetch", "ask"} /\ tasks'[t].pc = "ask"
       /\ \A c \in Codes : c \notin DOMAIN active_games' =>
             \E t \in 1..Len(tasks) :
                 /\ tasks[t].game_code = c
                 /\ tasks[t].pc \in {"ended", "discard"}
                 /\ tasks'[t].pc = "done"]_vars

\* a round of three questions is over and its room dissolved
C14_RoundOver ==
    /\ cmd = Idle
    /\ current_question # None /\ current_question[1].id = QuestionAmount - 1
    /\ \E t \in 1..Len(tasks) :
          tasks[t].pc = "done" /\ tasks[t].game_code \notin Codes

-----------------------------------------------------------------------------
\* the number of questions a _run_game task has asked so far
AskedSoFar(t) ==
    IF tasks[t].pc \in {"announce", "fetch"} THEN 0
    ELSE IF tasks[t].pc = "ask" THEN tasks[t].i + 1
    ELSE QuestionAmount

(* C15: for a running room with its one scheduler, the scoreboard           *)
(* (get_all_scores) lists the users of the room in list order, each with    *)
(* the sum of its recorded scores; every recorded score is 10 or 0; and the *)
(* total of a player is 10 times the number of its entries that score, one  *)
(* entry at most for each question the scheduler of the room has asked so   *)
(* far, so that it never exceeds 10 times that number (10 * N at the end).  *)
C15_ScoreboardTotals ==
    \A c \in Codes :
        (active_games[c].running /\ Cardinality(LiveTasks(c)) = 1)
        => LET g == active_games[c]
               t == CHOOSE t \in LiveTasks(c) : TRUE
               board == get_all_scores(g)
           IN /\ Len(board) = Len(g.users)
              /\ \A k \in 1..Len(g.users) :
                    /\ board[k].user = g.users[k].username
                    /\ \A j \in 1..Len(g.users[k].answers) :
                          g.users[k].answers[j].score \in {0, CorrectScore}
                    /\ board[k].score = CorrectScore *
                          Cardinality({j \in 1..Len(g.users[k].answers) :
                                          g.users[k].answers[j].score = CorrectScore})
                    /\ Len(g.users[k].answers) <= AskedSoFar(t)
                    /\ board[k].score <= CorrectScore * AskedSoFar(t)

-----------------------------------------------------------------------------
(* C16: the step in which create_game constructs its GameState adds a room  *)
(* under a code no active room holds, not running, whose user list is the   *)
(* creating handle alone, with an empty ledger, and maps the handle to that *)
(* code; every room that was active is still there, unchanged, and the      *)
(* handle is a member of none of them.  The step before, in which a handle  *)
(* that is in a room is taken out of it, removes that one user from that    *)
(* one room and changes nothing else in active_games.                       *)
C16_CreateGameFrame ==
    [][/\ created' = created + 1 =>
            \E c \in DOMAIN active_games' :
                LET new == active_games'[c]
                IN /\ c \notin Codes
                   /\ new.oid = created + 1
                   /\ new.code = c
                   /\ ~new.running
                   /\ Len(new.users) = 1
                   /\ new.users[1].answers = <<>>
                   /\ new.users[1].channel_name \in DOMAIN current_players'
                   /\ current_players'[new.users[1].channel_name] = c
                   /\ \A d \in Codes :
                        /\ d \in DOMAIN active_games'
                        /\ active_games'[d] = active_games[d]
                        /\ new.users[1].channel_name \notin Members(d)
       /\ (cmd = Idle /\ cmd'.op = "create_game") =>
            LET h == cmd'.channel_name
                d == current_players[h]
            IN /\ DOMAIN active_games' = Codes
               /\ \A e \in Codes \ {d} : active_games'[e] = active_games[e]
               /\ active_games'[d] =
                    [active_games[d] EXCEPT !.users =
                        SelectSeq(@, LAMBDA u : u.channel_name # h)]
               /\ h \in Members(d)]_vars

-----------------------------------------------------------------------------
\* no handler and no _remove_game is suspended in the middle of its writes
Quiescent == cmd = Idle /\ \A t \in 1..Len(tasks) : tasks[t].pc # "discard"

(* C17: whenever no handler and no _remove_game is suspended, every channel *)
(* name in current_players maps to the code of an active game whose user    *)
(* list holds it, and every user of every active game is mapped to the code *)
(* of that game.                                                            *)
C17_MappingAgrees ==
    Quiescent =>
        /\ \A h \in DOMAIN current_players :
              /\ current_players[h] \in Codes
              /\ h \in Members(current_players[h])
        /\ \A c \in Codes : \A h \in Members(c) :
              /\ h \in DOMAIN current_players
              /\ current_players[h] = c

-----------------------------------------------------------------------------
(* C18: an add_user that is answered with an error writes nothing.  The     *)
(* only write add_user makes before it looks at the game it was asked for   *)
(* is taking the handle out of its present room (line 136), so: a handle is *)
(* taken out of its room by add_user only when the game it names exists and *)
(* is not running, and the add_user that resumes after that removal is not  *)
(* answered with an error.                                                  *)
C18_FailedJoinWritesNothing ==
    /\ [][(cmd = Idle /\ cmd'.op = "add_user" /\ cmd'.pc = "discard")
            => /\ cmd'.game_code \in Codes
               /\ ~active_games[cmd'.game_code].running]_vars
    /\ []((cmd.op = "add_user" /\ cmd.pc = "discard")
            => add_user_resume_discard_reply.type # "error")

-----------------------------------------------------------------------------
(* C19: a submit_answer by a member of a game that is not running records   *)
(* nothing and is not answered with question_end, whatever the question id  *)
(* and the answer; and no step makes the ledger of a user longer unless the *)
(* game of that user is running and a _run_game task of its code is in the  *)
(* wait of a question.                                                      *)
C19_OwnRoomOpenQuestion ==
    /\ [](\A h \in DOMAIN current_players :
            (/\ cmd = Idle
             /\ current_players[h] \in Codes
             /\ h \in Members(current_players[h])
             /\ ~active_games[current_players[h]].running)
            => \A q \in QuestionIdInputs, a \in AnswerInputs :
                  /\ submit_answer_reply(h, q, a).type # "question_end"
                  /\ submit_answer_games(h, q, a) = active_games)
    /\ [][\A c \in Codes : SameRoom(c) =>
            \A h \in MembersOf(active_games, c) \cap MembersOf(active_games', c) :
                Len(AnswersOf(active_games', c, h)) > Len(AnswersOf(active_games, c, h))
                => /\ active_games[c].running
                   /\ Asking(c) # {}]_vars

====
